---- MODULE Spec2Model ----
(***************************************************************************)
(* The signaling relay of MonkeyChat (src/backend/main.go): the in-memory  *)
(* room registry `rooms`, the per-connection read loop of handleWebSocket  *)
(* with its join / leave / offer-answer-ice handlers, the disconnect       *)
(* cleanup and the creator-only room deletion.                             *)
(*                                                                         *)
(* Granularity.  A task takes one step from one point where it can wait to *)
(* the next: a read of the transport, a call of mutex.Lock() or            *)
(* mutex.RLock(), a WriteMessage to a transport, a round trip to the       *)
(* database.  What the code does between two such points, in memory and    *)
(* without waiting, belongs to the step that ends at the later point.      *)
(***************************************************************************)
EXTENDS Integers, Sequences, FiniteSets, TLC

(***************************************************************************)
(* Bounds of the model.                                                    *)
(***************************************************************************)
\* What the server takes from outside in one behaviour: frames read, read
\* errors and room deletion requests, all together.
MaxInputs == 3
\* The room deletion requests among them; each is served by a goroutine of
\* its own.
MaxDeletes == 2
\* The inputs of a behaviour in which every client speaks of room r1 only.
MaxFanOut == 4

\* The transports (one task each), the room ids clients name, the user ids
\* that issue deletion requests.
Conns == {"c1", "c2", "c3"}
RoomIds == {"r1", "r2"}
UserIds == {1, 2}

(***************************************************************************)
(* The identity the auth middleware hands to handleWebSocket: c1 carries a *)
(* valid token of the user "ashu" (id 1), c3 one of the user "eve" (id 2); *)
(* c2 connects without a token and gets ("", 0).                           *)
(***************************************************************************)
authUsername(c) == CASE c = "c1" -> "ashu" [] c = "c3" -> "eve" [] OTHER -> ""
userID(c) == CASE c = "c1" -> 1 [] c = "c3" -> 2 [] OTHER -> 0
\* The userName the browser behind the transport puts into its payloads.
ClientName(c) == CASE c = "c1" -> "ashu" [] c = "c2" -> "bob" [] OTHER -> "eve"

(***************************************************************************)
(* Wire data.  A frame is the byte string of one websocket text message.   *)
(* It is modelled by the JSON value it holds plus `enc`, which tells the   *)
(* bytes apart from the value: "canon" are the bytes Go's json.Marshal     *)
(* writes for that value, "loose" any other encoding of the same value     *)
(* (white space, key order, unknown keys, unescaped <>&), "bad" bytes that *)
(* are no JSON object at all.                                              *)
(* A payload is the raw JSON under "payload": absent, null, an object      *)
(* (userName is what its "userName" key decodes to, "" when missing), or a *)
(* JSON string (what JSON.stringify({userName}) of Room.jsx puts there).   *)
(***************************************************************************)
PAbsent == [kind |-> "absent", userName |-> ""]
PNull == [kind |-> "null", userName |-> ""]
PObj(n) == [kind |-> "object", userName |-> n]
PStr(n) == [kind |-> "string", userName |-> n]

Frame(e, r, p, enc) == [event |-> e, roomId |-> r, payload |-> p, enc |-> enc]
Garbage == Frame("", "", PAbsent, "bad")

\* type Message struct {Event, RoomID, Payload}
Message(e, r, p) == [Event |-> e, RoomID |-> r, Payload |-> p]

\* json.Unmarshal(message, &msg) of the read loop.
Unmarshal(data) ==
    IF data.enc = "bad"
    THEN [err |-> TRUE, msg |-> Message("", "", PAbsent)]
    ELSE [err |-> FALSE, msg |-> Message(data.event, data.roomId, data.payload)]

\* json.Marshal(v) of respondJSON: the canonical bytes of the envelope.
Marshal(msg) == Frame(msg.Event, msg.RoomID, msg.Payload, "canon")

\* json.Unmarshal(msg.Payload, &userInfo): empty input and a non-object value
\* are errors, null leaves userInfo zero.
UnmarshalUserInfo(p) ==
    CASE p.kind = "object" -> [err |-> FALSE, UserName |-> p.userName]
      [] p.kind = "null" -> [err |-> FALSE, UserName |-> ""]
      [] OTHER -> [err |-> TRUE, UserName |-> ""]

\* json.Marshal(map[string]string{"userName": userName})
UserNamePayload(n) == PObj(n)

\* A switch that relays every event it has no case for.
RelayEventsAndDefault == {"offer", "answer", "ice-candidate", "ping", ""}

\* case "offer", "answer", "ice-candidate":
RelayEvents == {"offer", "answer", "ice-candidate"}

(***************************************************************************)
(* The frames a client may send.                                           *)
(***************************************************************************)
\* c1 and c3 are React clients of authenticated users, which send the name
\* as JSON.stringify({userName}) (Room.jsx); c1 also leaves with an object
\* that names nobody.  c2 is anonymous: the React client, or a client of
\* another make that sends a JSON object or no payload at all.
Payloads(c) ==
    CASE c = "c1" -> {PStr(ClientName(c)), PObj("")}
      [] c = "c2" -> {PAbsent, PObj(ClientName(c)), PStr(ClientName(c))}
      [] OTHER -> {PStr(ClientName(c))}
JoinFrames(c) == {Frame("join", r, p, "canon") : r \in RoomIds, p \in Payloads(c)}
LeaveFrames(c) == {Frame("leave", r, p, "canon") : r \in RoomIds, p \in Payloads(c)}
\* The signaling frames.  The React client (c1, c3) sends the SDP or the
\* candidate together with its name as one JSON string, in the bytes
\* JSON.stringify writes, which are those of json.Marshal.  The bytes of c2
\* are not canonical, and its payload is an object; it has two different
\* frames for r1, an answer and a candidate.
RelayFrames(c) ==
    CASE c = "c1" -> {Frame("offer", r, PStr(ClientName(c)), "canon") : r \in RoomIds}
      [] c = "c2" -> {Frame("answer", r, PObj(ClientName(c)), "loose") : r \in RoomIds}
                         \cup {Frame("ice-candidate", "r1", PObj(ClientName(c)), "loose")}
      [] OTHER -> {Frame("ice-candidate", r, PStr(ClientName(c)), "canon") : r \in RoomIds}
\* Bytes that are no JSON, and an envelope with an event the switch ignores.
OtherFrames(c) ==
    CASE c = "c1" -> {Garbage}
      [] c = "c2" -> {Frame("ping", "r1", PAbsent, "canon")}
      [] OTHER -> {}
Frames(c) == JoinFrames(c) \cup LeaveFrames(c) \cup RelayFrames(c) \cup OtherFrames(c)

(***************************************************************************)
(* State.                                                                  *)
(***************************************************************************)
VARIABLES
    rooms,        \* the registry: room id -> list of member connections
    UserName,     \* Connection.UserName of every connection
    alive,        \* the transport is open (reads and writes succeed)
    pc,           \* where the connection's task stands
    cur,          \* the locals of the handler the task is in
    sent,         \* per transport: every WriteMessage on it, in order
    hist,         \* per connection: the (event, room) of the frames it read
    dbRooms,      \* table rooms of the database: id -> created_by
    activeRooms,  \* auth.go activeRooms: id -> CreatedBy
    del,          \* the deletion requests, one per goroutine serving one
    nin           \* frames read and read errors so far

vars == <<rooms, UserName, alive, pc, cur, sent, hist, dbRooms, activeRooms, del, nin>>

NoFrame == Frame("", "", PAbsent, "none")
\* The locals of a handler: roomID; userName, the name a leave announces
\* or, in the join loop, existingConn.UserName as read for the call of
\* line 254; message, the bytes a relay forwards; todo, the entries the
\* range loop has still to visit.
Locals(r, n, m) == [roomID |-> r, userName |-> n, message |-> m, todo |-> << >>]
NoLocals == Locals("", "", NoFrame)
DelSlots == 1..MaxDeletes
IdleDel == [pc |-> "idle", roomID |-> "", userID |-> 0]

\* The function f without the key k.
Without(f, k) == [x \in DOMAIN f \ {k} |-> f[x]]
\* The function f with k mapped to v (k new or not).
With(f, k, v) == [x \in DOMAIN f \cup {k} |-> IF x = k THEN v ELSE f[x]]

Init ==
    /\ rooms = << >>
    /\ UserName = [c \in Conns |-> authUsername(c)]
    /\ alive = [c \in Conns |-> TRUE]
    /\ pc = [c \in Conns |-> "read"]
    /\ cur = [c \in Conns |-> NoLocals]
    /\ sent = [c \in Conns |-> << >>]
    /\ hist = [c \in Conns |-> << >>]
    /\ dbRooms = << >>
    /\ activeRooms = << >>
    /\ del = [s \in DelSlots |-> IdleDel]
    /\ nin = 0

\* The members of every room, whatever the id asked for.
RoomConnectionsAnyRoom(roomID) ==
    (IF "r1" \in DOMAIN rooms THEN rooms["r1"] ELSE << >>)
        \o (IF "r2" \in DOMAIN rooms THEN rooms["r2"] ELSE << >>)

\* connections, ok := rooms[roomID]; without the entry the loop of
\* notifyUserLeft and that of relayMessageToRoom are skipped.
RoomConnections(roomID) == IF roomID \in DOMAIN rooms THEN rooms[roomID] ELSE << >>

(***************************************************************************)
(* The registry lock, a sync.RWMutex.  Where a task stands tells what it   *)
(* holds.  A task is inside a mutex.Lock() section from the return of      *)
(* Lock() in the join handler to the Unlock() of line 260: while it waits  *)
(* for the database in addActiveRoom and while it stands at a write of the *)
(* join loop.  It is inside a mutex.RLock() section while it stands at a   *)
(* write of notifyUserLeft or of relayMessageToRoom.  The sections of      *)
(* cleanupConnection, handleDeleteRoom and logRoomStatus wait for nothing  *)
(* and are one step each.                                                  *)
(* A call of Lock() first shuts out the readers to come and then waits for *)
(* the readers inside to leave: from the one step to the other the writer  *)
(* is announced.  Writers take turns (the inner mutex of the RWMutex), so  *)
(* one writer at most is announced or inside.                              *)
(***************************************************************************)
mutexWriters ==
    {c \in Conns : pc[c] \in {"joinInsert", "joinFetch", "joinWriteMember", "joinWriteSelf"}}
\* A read lock that notifyUserLeft still holds when the leave handler goes on
\* to cleanupConnection.
mutexReadersThroughCleanup ==
    {c \in Conns : pc[c] \in {"leftWrite", "relayWrite", "cleanup", "cleanupLock"}}
mutexReaders == {c \in Conns : pc[c] \in {"leftWrite", "relayWrite"}}
\* The tasks and the deletion requests whose Lock() waits for the readers.
mutexAnnounced == {c \in Conns : pc[c] \in {"joinLock", "cleanupLock", "closingLock"}}
delAnnounced == {s \in DelSlots : del[s].pc = "unmapLock"}

\* RLock() returns, and Lock() gets to announce itself, when no writer is
\* inside or announced.
CanRLock == mutexWriters = {} /\ mutexAnnounced = {} /\ delAnnounced = {}
\* The Lock() of the announced writer returns when no reader is inside.
CanLock == mutexReaders = {}

\* The transport whose WriteMessage the task of c is in, "" when in none.
WritingTo(c) ==
    CASE pc[c] \in {"joinWriteMember", "leftWrite", "relayWrite"} -> Head(cur[c].todo)
      [] pc[c] \in {"joinWriteSelf", "joined"} -> c
      [] OTHER -> ""

(***************************************************************************)
(* Transport writes.  A task stands at a write from the call of            *)
(* WriteMessage until its return; the message enters the log of the        *)
(* transport when the call returns.  An entry of the log names the task    *)
(* that wrote it and, as `at`, the number of the frame that task was       *)
(* handling.                                                               *)
(***************************************************************************)
\* A transport that hands the newest message to the peer first.
WriteMessageNewestFirst(log, to, data, by) ==
    [log EXCEPT ![to] = <<[data |-> data, by |-> by, at |-> Len(hist[by]),
                           ok |-> alive[to]]>> \o @]

\* conn.Conn.WriteMessage(websocket.TextMessage, data) by the task of `by`:
\* the bytes reach the peer when the transport is open, else the write
\* returns an error, which every caller only logs.
WriteMessage(log, to, data, by) ==
    [log EXCEPT ![to] = Append(@, [data |-> data, by |-> by, at |-> Len(hist[by]),
                                   ok |-> alive[to]])]

respondJSON(log, to, v, by) == WriteMessage(log, to, Marshal(v), by)

notifyUserJoined(log, to, roomID, userName, by) ==
    respondJSON(log, to, Message("user-joined", roomID, UserNamePayload(userName)), by)

\* A relay that decodes the envelope and encodes it again, as respondJSON does.
RelayBytesReencoded(message) == Marshal(Unmarshal(message).msg)

\* The loop of relayMessageToRoom writes the bytes it was given.
RelayBytes(message) == message

\* The entries the loops of notifyUserLeft and of relayMessageToRoom write
\* to: all but those of the sender.
Others(connections, sender) ==
    LET NotSender(conn) == conn # sender
    IN SelectSeq(connections, NotSender)

(***************************************************************************)
(* The read loop.                                                          *)
(***************************************************************************)
\* A name step that takes the payload's name on every join.
ResolveNameEveryJoin(name, payload) ==
    IF payload.kind # "absent"
    THEN LET userInfo == UnmarshalUserInfo(payload)
         IN IF ~userInfo.err /\ userInfo.UserName # ""
            THEN userInfo.UserName
            ELSE "Anonymous"
    ELSE name

\* The display name after the name step of the join handler.
ResolveName(name, payload) ==
    IF name = "" /\ payload.kind # "absent"
    THEN LET userInfo == UnmarshalUserInfo(payload)
         IN IF ~userInfo.err /\ userInfo.UserName # ""
            THEN userInfo.UserName
            ELSE "Anonymous"
    ELSE name

\* A leave handler that prefers the connection's name to the payload's.
LeavingUserNameConnFirst(c, payload) ==
    LET userInfo == UnmarshalUserInfo(payload)
    IN IF UserName[c] = "" THEN userInfo.UserName ELSE UserName[c]

\* The name the leave handler passes to notifyUserLeft.
LeavingUserName(c, payload) ==
    LET userInfo == UnmarshalUserInfo(payload)
    IN IF userInfo.UserName = "" THEN UserName[c] ELSE userInfo.UserName

\* ws.ReadMessage() returns a frame; it is decoded and dispatched on its
\* event, up to the first call of the handler that can wait.  The join
\* handler sets conn.UserName here, with no lock held.
Recv(c, message) ==
    /\ pc[c] = "read"
    /\ alive[c]
    /\ nin' = nin + 1
    /\ hist' = [hist EXCEPT ![c] = Append(@, <<message.event, message.roomId>>)]
    /\ LET u == Unmarshal(message)
           msg == u.msg
       IN IF u.err
          THEN UNCHANGED <<pc, cur, UserName>>
          ELSE CASE msg.Event = "join" ->
                      /\ UserName' = [UserName EXCEPT ![c] = ResolveName(@, msg.Payload)]
                      /\ pc' = [pc EXCEPT ![c] = "join"]
                      /\ cur' = [cur EXCEPT ![c] = Locals(msg.RoomID, "", NoFrame)]
                 [] msg.Event = "leave" ->
                      /\ IF UnmarshalUserInfo(msg.Payload).err
                         THEN /\ pc' = [pc EXCEPT ![c] = "cleanup"]
                              /\ UNCHANGED cur
                         ELSE /\ pc' = [pc EXCEPT ![c] = "notifyLeft"]
                              /\ cur' = [cur EXCEPT ![c] =
                                     Locals(msg.RoomID,
                                            LeavingUserName(c, msg.Payload), NoFrame)]
                      /\ UNCHANGED UserName
                 [] msg.Event \in RelayEvents ->
                      /\ pc' = [pc EXCEPT ![c] = "relay"]
                      /\ cur' = [cur EXCEPT ![c] = Locals(msg.RoomID, "", message)]
                      /\ UNCHANGED UserName
                 [] OTHER -> UNCHANGED <<pc, cur, UserName>>
    /\ UNCHANGED <<rooms, alive, sent, dbRooms, activeRooms, del>>

\* ws.ReadMessage() returns an error: the transport is gone, the task goes
\* on to cleanupConnection.
ReadError(c) ==
    /\ pc[c] = "read"
    /\ alive[c]
    /\ nin' = nin + 1
    /\ alive' = [alive EXCEPT ![c] = FALSE]
    /\ pc' = [pc EXCEPT ![c] = "closing"]
    /\ UNCHANGED <<rooms, UserName, cur, sent, hist, dbRooms, activeRooms, del>>

(***************************************************************************)
(* join: the section under mutex.Lock(), the joined reply, logRoomStatus.  *)
(***************************************************************************)
\* activeRooms.Store(roomID, room) of addActiveRoom.
addActiveRoomStore(ar, roomID, createdBy) == With(ar, roomID, createdBy)
\* INSERT INTO rooms: an id already in the table violates its primary key,
\* the table stays as it is and the error is logged.
CreateRoom(db, roomID, uid) ==
    IF roomID \in DOMAIN db THEN db ELSE With(db, roomID, uid)

\* A loop that stops after the first member.
JoinLoopEntriesFirstOnly(roomID) ==
    IF RoomConnections(roomID) = << >> THEN << >> ELSE <<Head(RoomConnections(roomID))>>

\* for _, existingConn := range rooms[roomID]
JoinLoopEntries(roomID) == RoomConnections(roomID)

\* mutex.Lock() is called: the readers to come are shut out.
JoinLockCall(c) ==
    /\ pc[c] = "join"
    /\ CanRLock
    /\ pc' = [pc EXCEPT ![c] = "joinLock"]
    /\ UNCHANGED <<rooms, UserName, alive, cur, sent, hist, dbRooms, activeRooms, del, nin>>

\* A join handler that records the room for every authenticated joiner, new
\* room or not.
JoinLockRecordingEveryJoin(c) ==
    /\ pc[c] = "joinLock"
    /\ CanLock
    /\ LET roomID == cur[c].roomID
           creates == /\ UserName[c] # ""
                      /\ UserName[c] # "Anonymous"
                      /\ userID(c) > 0
       IN IF creates
          THEN /\ rooms' = With(rooms, roomID, RoomConnections(roomID))
               /\ activeRooms' = addActiveRoomStore(activeRooms, roomID, UserName[c])
               /\ pc' = [pc EXCEPT ![c] = "joinInsert"]
               /\ UNCHANGED cur
          ELSE /\ UNCHANGED activeRooms
               /\ IF JoinLoopEntries(roomID) = << >>
                  THEN /\ rooms' = With(rooms, roomID, <<c>>)
                       /\ pc' = [pc EXCEPT ![c] = "joined"]
                       /\ UNCHANGED cur
                  ELSE /\ pc' = [pc EXCEPT ![c] = "joinWriteMember"]
                       /\ cur' = [cur EXCEPT ![c].todo = JoinLoopEntries(roomID)]
                       /\ UNCHANGED rooms
    /\ UNCHANGED <<UserName, alive, sent, hist, dbRooms, del, nin>>

\* mutex.Lock() returns.  A missing room is created; for an authenticated
\* joiner addActiveRoom stores the room in activeRooms and goes to the
\* database.  Otherwise the task enters the loop and stands at its first
\* write, or, with no member to tell, appends the connection and unlocks.
JoinLock(c) ==
    /\ pc[c] = "joinLock"
    /\ CanLock
    /\ LET roomID == cur[c].roomID
           isNew == roomID \notin DOMAIN rooms
           creates == /\ isNew
                      /\ UserName[c] # ""
                      /\ UserName[c] # "Anonymous"
                      /\ userID(c) > 0
       IN IF creates
          THEN /\ rooms' = With(rooms, roomID, << >>)
               /\ activeRooms' = addActiveRoomStore(activeRooms, roomID, UserName[c])
               /\ pc' = [pc EXCEPT ![c] = "joinInsert"]
               /\ UNCHANGED cur
          ELSE /\ UNCHANGED activeRooms
               /\ IF JoinLoopEntries(roomID) = << >>
                  THEN /\ rooms' = With(rooms, roomID, <<c>>)
                       /\ pc' = [pc EXCEPT ![c] = "joined"]
                       /\ UNCHANGED cur
                  ELSE /\ pc' = [pc EXCEPT ![c] = "joinWriteMember"]
                       /\ cur' = [cur EXCEPT ![c].todo = JoinLoopEntries(roomID)]
                       /\ UNCHANGED rooms
    /\ UNCHANGED <<UserName, alive, sent, hist, dbRooms, del, nin>>

\* The INSERT of CreateRoom returns.  After an error addActiveRoom returns;
\* the room is new, the loop has nothing to visit, the connection is
\* appended and the lock released.  Else CreateRoom reads the row back.
JoinInsert(c) ==
    /\ pc[c] = "joinInsert"
    /\ LET roomID == cur[c].roomID
       IN /\ dbRooms' = CreateRoom(dbRooms, roomID, userID(c))
          /\ IF roomID \in DOMAIN dbRooms
             THEN /\ rooms' = [rooms EXCEPT ![roomID] = Append(@, c)]
                  /\ pc' = [pc EXCEPT ![c] = "joined"]
             ELSE /\ pc' = [pc EXCEPT ![c] = "joinFetch"]
                  /\ UNCHANGED rooms
    /\ UNCHANGED <<UserName, alive, cur, sent, hist, activeRooms, del, nin>>

\* The SELECT of CreateRoom returns (its result is dropped); the connection
\* is appended to the new room and the lock released.
JoinFetch(c) ==
    /\ pc[c] = "joinFetch"
    /\ rooms' = [rooms EXCEPT ![cur[c].roomID] = Append(@, c)]
    /\ pc' = [pc EXCEPT ![c] = "joined"]
    /\ UNCHANGED <<UserName, alive, cur, sent, hist, dbRooms, activeRooms, del, nin>>

\* A write of the join loop returns.  The one to the member is followed by
\* the one to the joiner, whose argument existingConn.UserName is read
\* before the call; that one by the next member or, after the last, by the
\* append and mutex.Unlock().
JoinWritten(c) ==
    /\ pc[c] \in {"joinWriteMember", "joinWriteSelf"}
    /\ LET roomID == cur[c].roomID
           existingConn == Head(cur[c].todo)
       IN IF pc[c] = "joinWriteMember"
          THEN /\ sent' = notifyUserJoined(sent, existingConn, roomID, UserName[c], c)
               /\ pc' = [pc EXCEPT ![c] = "joinWriteSelf"]
               /\ cur' = [cur EXCEPT ![c].userName = UserName[existingConn]]
               /\ UNCHANGED rooms
          ELSE /\ sent' = notifyUserJoined(sent, c, roomID, cur[c].userName, c)
               /\ cur' = [cur EXCEPT ![c].todo = Tail(@), ![c].userName = ""]
               /\ IF Tail(cur[c].todo) = << >>
                  THEN /\ rooms' = [rooms EXCEPT ![roomID] = Append(@, c)]
                       /\ pc' = [pc EXCEPT ![c] = "joined"]
                  ELSE /\ pc' = [pc EXCEPT ![c] = "joinWriteMember"]
                       /\ UNCHANGED rooms
    /\ UNCHANGED <<UserName, alive, hist, dbRooms, activeRooms, del, nin>>

\* A confirmation that reaches the joiner ahead of what was written to it
\* before.
JoinConfirmOvertaking(c) ==
    /\ pc[c] = "joined"
    /\ sent' = [sent EXCEPT ![c] =
                   <<[data |-> Marshal(Message("joined", cur[c].roomID, PAbsent)),
                      by |-> c, at |-> Len(hist[c]), ok |-> alive[c]]>> \o @]
    /\ pc' = [pc EXCEPT ![c] = "logStatus"]
    /\ UNCHANGED <<rooms, UserName, alive, cur, hist, dbRooms, activeRooms, del, nin>>

\* respondJSON(conn, Message{Event: "joined", RoomID: roomID}) returns;
\* logRoomStatus() comes next.
JoinConfirm(c) ==
    /\ pc[c] = "joined"
    /\ sent' = respondJSON(sent, c, Message("joined", cur[c].roomID, PAbsent), c)
    /\ pc' = [pc EXCEPT ![c] = "logStatus"]
    /\ UNCHANGED <<rooms, UserName, alive, cur, hist, dbRooms, activeRooms, del, nin>>

\* logRoomStatus: mutex.RLock(), the rooms are read for the log, RUnlock();
\* the handler returns to the read loop.
LogRoomStatus(c) ==
    /\ pc[c] = "logStatus"
    /\ CanRLock
    /\ pc' = [pc EXCEPT ![c] = "read"]
    /\ cur' = [cur EXCEPT ![c] = NoLocals]
    /\ UNCHANGED <<rooms, UserName, alive, sent, hist, dbRooms, activeRooms, del, nin>>

(***************************************************************************)
(* leave: notifyUserLeft under mutex.RLock(), then cleanupConnection.      *)
(***************************************************************************)
\* notifyUserLeft: mutex.RLock() returns; with nobody to tell, the deferred
\* RUnlock() runs at once.
NotifyLeftRLock(c) ==
    /\ pc[c] = "notifyLeft"
    /\ CanRLock
    /\ LET targets == Others(RoomConnections(cur[c].roomID), c)
       IN IF targets = << >>
          THEN /\ pc' = [pc EXCEPT ![c] = "cleanup"]
               /\ cur' = [cur EXCEPT ![c] = NoLocals]
          ELSE /\ pc' = [pc EXCEPT ![c] = "leftWrite"]
               /\ cur' = [cur EXCEPT ![c].todo = targets]
    /\ UNCHANGED <<rooms, UserName, alive, sent, hist, dbRooms, activeRooms, del, nin>>

\* A write of notifyUserLeft returns.
NotifyLeftWritten(c) ==
    /\ pc[c] = "leftWrite"
    /\ LET roomID == cur[c].roomID
           userLeftMsg == Message("user-left", roomID, UserNamePayload(cur[c].userName))
       IN sent' = respondJSON(sent, Head(cur[c].todo), userLeftMsg, c)
    /\ IF Tail(cur[c].todo) = << >>
       THEN /\ pc' = [pc EXCEPT ![c] = "cleanup"]
            /\ cur' = [cur EXCEPT ![c] = NoLocals]
       ELSE /\ cur' = [cur EXCEPT ![c].todo = Tail(@)]
            /\ UNCHANGED pc
    /\ UNCHANGED <<rooms, UserName, alive, hist, dbRooms, activeRooms, del, nin>>

\* The index of the first entry of s equal to c, 0 when there is none.
FirstIndex(s, c) ==
    IF \E i \in 1..Len(s) : s[i] = c
    THEN CHOOSE i \in 1..Len(s) : s[i] = c /\ \A j \in 1..(i - 1) : s[j] # c
    ELSE 0

\* append(connections[:i], connections[i+1:]...)
RemoveAt(s, i) == [j \in 1..(Len(s) - 1) |-> IF j < i THEN s[j] ELSE s[j + 1]]

\* The rooms cleanupConnection can stop at: the range over the Go map visits
\* the rooms in an order the runtime picks, and the function returns after
\* the first removal.
RoomsHolding(c) == {r \in DOMAIN rooms : FirstIndex(rooms[r], c) # 0}

\* A cleanup that drops the room it empties.
cleanupConnectionDroppingEmpty(c) ==
    IF RoomsHolding(c) = {}
    THEN UNCHANGED rooms
    ELSE \E roomID \in RoomsHolding(c) :
            LET left == RemoveAt(rooms[roomID], FirstIndex(rooms[roomID], c))
            IN rooms' = IF left = << >>
                        THEN Without(rooms, roomID)
                        ELSE [rooms EXCEPT ![roomID] = left]

cleanupConnection(c) ==
    IF RoomsHolding(c) = {}
    THEN UNCHANGED rooms
    ELSE \E roomID \in RoomsHolding(c) :
            rooms' = [rooms EXCEPT ![roomID] = RemoveAt(@, FirstIndex(@, c))]

\* cleanupConnection calls mutex.Lock(), at the end of the leave handler
\* ("cleanup") or after a read error ("closing").
CleanupLockCall(c) ==
    /\ pc[c] \in {"cleanup", "closing"}
    /\ CanRLock
    /\ pc' = [pc EXCEPT ![c] = IF pc[c] = "cleanup" THEN "cleanupLock" ELSE "closingLock"]
    /\ UNCHANGED <<rooms, UserName, alive, cur, sent, hist, dbRooms, activeRooms, del, nin>>

\* A cleanup that, after a read error, tells a member of the room that the
\* connection left.
CleanupLockedNotifying(c) ==
    /\ pc[c] \in {"cleanupLock", "closingLock"}
    /\ CanLock
    /\ cleanupConnection(c)
    /\ pc' = [pc EXCEPT ![c] = IF pc[c] = "cleanupLock" THEN "read" ELSE "closed"]
    /\ sent' = IF pc[c] = "closingLock"
                  /\ \E r \in RoomsHolding(c) : Others(rooms[r], c) # << >>
               THEN LET r == CHOOSE r \in RoomsHolding(c) : Others(rooms[r], c) # << >>
                    IN respondJSON(sent, Head(Others(rooms[r], c)),
                                   Message("user-left", r, UserNamePayload(UserName[c])), c)
               ELSE sent
    /\ UNCHANGED <<UserName, alive, cur, hist, dbRooms, activeRooms, del, nin>>

\* A cleanup after which the task ends, whatever brought it there.
CleanupLockedClosing(c) ==
    /\ pc[c] \in {"cleanupLock", "closingLock"}
    /\ CanLock
    /\ cleanupConnection(c)
    /\ pc' = [pc EXCEPT ![c] = "closed"]
    /\ UNCHANGED <<UserName, alive, cur, sent, hist, dbRooms, activeRooms, del, nin>>

\* mutex.Lock() returns and cleanupConnection runs to its Unlock(): after a
\* leave the loop reads on, after a read error the task ends and ws.Close()
\* runs.
CleanupLocked(c) ==
    /\ pc[c] \in {"cleanupLock", "closingLock"}
    /\ CanLock
    /\ cleanupConnection(c)
    /\ pc' = [pc EXCEPT ![c] = IF pc[c] = "cleanupLock" THEN "read" ELSE "closed"]
    /\ UNCHANGED <<UserName, alive, cur, sent, hist, dbRooms, activeRooms, del, nin>>

(***************************************************************************)
(* offer / answer / ice-candidate: relayMessageToRoom under mutex.RLock(). *)
(***************************************************************************)
\* A relay that makes the room it does not find.
RelayRLockCreatingRoom(c) ==
    /\ pc[c] = "relay"
    /\ CanRLock
    /\ LET targets == Others(RoomConnections(cur[c].roomID), c)
       IN IF targets = << >>
          THEN /\ pc' = [pc EXCEPT ![c] = "read"]
               /\ cur' = [cur EXCEPT ![c] = NoLocals]
               /\ rooms' = With(rooms, cur[c].roomID, RoomConnections(cur[c].roomID))
          ELSE /\ pc' = [pc EXCEPT ![c] = "relayWrite"]
               /\ cur' = [cur EXCEPT ![c].todo = targets]
               /\ UNCHANGED rooms
    /\ UNCHANGED <<UserName, alive, sent, hist, dbRooms, activeRooms, del, nin>>

\* mutex.RLock() returns; without the room, or with nobody else in it, the
\* deferred RUnlock() runs at once.
RelayRLock(c) ==
    /\ pc[c] = "relay"
    /\ CanRLock
    /\ LET targets == Others(RoomConnections(cur[c].roomID), c)
       IN IF targets = << >>
          THEN /\ pc' = [pc EXCEPT ![c] = "read"]
               /\ cur' = [cur EXCEPT ![c] = NoLocals]
          ELSE /\ pc' = [pc EXCEPT ![c] = "relayWrite"]
               /\ cur' = [cur EXCEPT ![c].todo = targets]
    /\ UNCHANGED <<rooms, UserName, alive, sent, hist, dbRooms, activeRooms, del, nin>>

\* A relay that gives up at the first write that fails.
RelayWrittenAbortOnError(c) ==
    /\ pc[c] = "relayWrite"
    /\ sent' = WriteMessage(sent, Head(cur[c].todo), RelayBytes(cur[c].message), c)
    /\ IF Tail(cur[c].todo) = << >> \/ ~alive[Head(cur[c].todo)]
       THEN /\ pc' = [pc EXCEPT ![c] = "read"]
            /\ cur' = [cur EXCEPT ![c] = NoLocals]
       ELSE /\ cur' = [cur EXCEPT ![c].todo = Tail(@)]
            /\ UNCHANGED pc
    /\ UNCHANGED <<rooms, UserName, alive, hist, dbRooms, activeRooms, del, nin>>

\* A relay that hands every write to a goroutine of its own and does not
\* wait for it (go c.Conn.WriteMessage(...)): the write of a frame can land
\* on a transport ahead of the frame the same task relayed before it.
RelayWrittenDetached(c) ==
    /\ pc[c] = "relayWrite"
    /\ LET to == Head(cur[c].todo)
           n == Len(sent[to])
           w == [data |-> RelayBytes(cur[c].message), by |-> c, at |-> Len(hist[c]),
                 ok |-> alive[to]]
       IN \/ sent' = [sent EXCEPT ![to] = Append(@, w)]
          \/ /\ n > 0
             /\ sent[to][n].by = c
             /\ sent[to][n].at < Len(hist[c])
             /\ sent' = [sent EXCEPT ![to] = Append(SubSeq(@, 1, n - 1), w) \o <<@[n]>>]
    /\ IF Tail(cur[c].todo) = << >>
       THEN /\ pc' = [pc EXCEPT ![c] = "read"]
            /\ cur' = [cur EXCEPT ![c] = NoLocals]
       ELSE /\ cur' = [cur EXCEPT ![c].todo = Tail(@)]
            /\ UNCHANGED pc
    /\ UNCHANGED <<rooms, UserName, alive, hist, dbRooms, activeRooms, del, nin>>

\* A write of relayMessageToRoom returns.
RelayWritten(c) ==
    /\ pc[c] = "relayWrite"
    /\ sent' = WriteMessage(sent, Head(cur[c].todo), RelayBytes(cur[c].message), c)
    /\ IF Tail(cur[c].todo) = << >>
       THEN /\ pc' = [pc EXCEPT ![c] = "read"]
            /\ cur' = [cur EXCEPT ![c] = NoLocals]
       ELSE /\ cur' = [cur EXCEPT ![c].todo = Tail(@)]
            /\ UNCHANGED pc
    /\ UNCHANGED <<rooms, UserName, alive, hist, dbRooms, activeRooms, del, nin>>

(***************************************************************************)
(* POST /rooms/delete: handleDeleteRoom.  fasthttp serves every request in *)
(* a goroutine of its own; `del` holds one request per slot, and a slot    *)
(* serves one request.                                                     *)
(***************************************************************************)
\* SELECT ... FROM rooms WHERE id = ?: the creator, 0 when there is no row.
GetRoomByID(db, roomID) == IF roomID \in DOMAIN db THEN db[roomID] ELSE 0
\* DELETE FROM rooms WHERE id = ?: no error when no row matches.
DeleteRoom(db, roomID) == Without(db, roomID)

\* The request arrives and GetRoomByID returns: 404 without a row, 403 for
\* a user who is not the creator, and the handler returns; else on to
\* DeleteRoom.
DeleteLookup(s, uid, roomID) ==
    /\ del[s].pc = "idle"
    /\ \A t \in DelSlots : t < s => del[t].pc # "idle"
    /\ LET createdBy == GetRoomByID(dbRooms, roomID)
       IN del' = [del EXCEPT ![s] =
                     IF createdBy = 0 \/ createdBy # uid
                     THEN [IdleDel EXCEPT !.pc = "refused"]
                     ELSE [pc |-> "delete", roomID |-> roomID, userID |-> uid]]
    /\ UNCHANGED <<rooms, UserName, alive, pc, cur, sent, hist, dbRooms, activeRooms, nin>>

\* DeleteRoom(roomID) returns.
DeleteRecord(s) ==
    /\ del[s].pc = "delete"
    /\ dbRooms' = DeleteRoom(dbRooms, del[s].roomID)
    /\ del' = [del EXCEPT ![s].pc = "unmap"]
    /\ UNCHANGED <<rooms, UserName, alive, pc, cur, sent, hist, activeRooms, nin>>

\* mutex.Lock() is called.
DeleteLockCall(s) ==
    /\ del[s].pc = "unmap"
    /\ CanRLock
    /\ del' = [del EXCEPT ![s].pc = "unmapLock"]
    /\ UNCHANGED <<rooms, UserName, alive, pc, cur, sent, hist, dbRooms, activeRooms, nin>>

\* mutex.Lock() returns; delete(rooms, roomID); mutex.Unlock()
DeleteUnmap(s) ==
    /\ del[s].pc = "unmapLock"
    /\ CanLock
    /\ rooms' = Without(rooms, del[s].roomID)
    /\ del' = [del EXCEPT ![s].pc = "untrack"]
    /\ UNCHANGED <<UserName, alive, pc, cur, sent, hist, dbRooms, activeRooms, nin>>

\* activeRooms.Delete(roomID) and the 200 response; the handler returns.
DeleteUntrack(s) ==
    /\ del[s].pc = "untrack"
    /\ activeRooms' = Without(activeRooms, del[s].roomID)
    /\ del' = [del EXCEPT ![s] = [IdleDel EXCEPT !.pc = "deleted"]]
    /\ UNCHANGED <<rooms, UserName, alive, pc, cur, sent, hist, dbRooms, nin>>

\* The steps of the tasks between their inputs.
TaskNext ==
    \/ \E c \in Conns : JoinLockCall(c)
    \/ \E c \in Conns : JoinLock(c)
    \/ \E c \in Conns : JoinInsert(c)
    \/ \E c \in Conns : JoinFetch(c)
    \/ \E c \in Conns : JoinWritten(c)
    \/ \E c \in Conns : JoinConfirm(c)
    \/ \E c \in Conns : LogRoomStatus(c)
    \/ \E c \in Conns : NotifyLeftRLock(c)
    \/ \E c \in Conns : NotifyLeftWritten(c)
    \/ \E c \in Conns : CleanupLockCall(c)
    \/ \E c \in Conns : CleanupLocked(c)
    \/ \E c \in Conns : RelayRLock(c)
    \/ \E c \in Conns : RelayWritten(c)
    \/ \E s \in DelSlots : DeleteRecord(s)
    \/ \E s \in DelSlots : DeleteLockCall(s)
    \/ \E s \in DelSlots : DeleteUnmap(s)
    \/ \E s \in DelSlots : DeleteUntrack(s)

\* The deletion requests taken so far.
DelTaken == Cardinality({s \in DelSlots : del[s].pc # "idle"})

\* The server with every client sending what it likes: MaxInputs inputs.
Next ==
    \/ /\ nin + DelTaken < MaxInputs
       /\ \/ \E c \in Conns : \E message \in Frames(c) : Recv(c, message)
          \/ \E c \in Conns : ReadError(c)
          \/ \E s \in DelSlots : \E uid \in UserIds : \E roomID \in RoomIds :
                 DeleteLookup(s, uid, roomID)
    \/ TaskNext

Spec == Init /\ [][Next]_vars

\* The server when the clients send joins only: MaxInputs joins, and
\* MaxDeletes deletion requests next to them.
DeleteNext ==
    \/ /\ nin < MaxInputs
       /\ \E c \in Conns : \E message \in JoinFrames(c) : Recv(c, message)
    \/ \E s \in DelSlots : \E uid \in UserIds : \E roomID \in RoomIds :
           DeleteLookup(s, uid, roomID)
    \/ \E c \in Conns : JoinLockCall(c)
    \/ \E c \in Conns : JoinLock(c)
    \/ \E c \in Conns : JoinInsert(c)
    \/ \E c \in Conns : JoinFetch(c)
    \/ \E c \in Conns : JoinWritten(c)
    \/ \E c \in Conns : JoinConfirm(c)
    \/ \E c \in Conns : LogRoomStatus(c)
    \/ \E s \in DelSlots : DeleteRecord(s)
    \/ \E s \in DelSlots : DeleteLockCall(s)
    \/ \E s \in DelSlots : DeleteUnmap(s)
    \/ \E s \in DelSlots : DeleteUntrack(s)

DeleteSpec == Init /\ [][DeleteNext]_vars

\* The frames of c that name room r1.
FanOutFrames(c) ==
    {message \in JoinFrames(c) \cup LeaveFrames(c) \cup RelayFrames(c) :
         message.roomId = "r1"}

\* The server when every client speaks of room r1 only and nobody asks for
\* a deletion: MaxFanOut frames and read errors.
FanOutNext ==
    \/ /\ nin < MaxFanOut
       /\ \/ \E c \in Conns : \E message \in FanOutFrames(c) : Recv(c, message)
          \/ \E c \in Conns : ReadError(c)
    \/ \E c \in Conns : JoinLockCall(c)
    \/ \E c \in Conns : JoinLock(c)
    \/ \E c \in Conns : JoinInsert(c)
    \/ \E c \in Conns : JoinFetch(c)
    \/ \E c \in Conns : JoinWritten(c)
    \/ \E c \in Conns : JoinConfirm(c)
    \/ \E c \in Conns : LogRoomStatus(c)
    \/ \E c \in Conns : NotifyLeftRLock(c)
    \/ \E c \in Conns : NotifyLeftWritten(c)
    \/ \E c \in Conns : CleanupLockCall(c)
    \/ \E c \in Conns : CleanupLocked(c)
    \/ \E c \in Conns : RelayRLock(c)
    \/ \E c \in Conns : RelayWritten(c)

FanOutSpec == Init /\ [][FanOutNext]_vars

(***************************************************************************)
(* Scheduling.  Every goroutine that can take a step takes it in the end:  *)
(* a lock that stays free is acquired, a database call returns, and a      *)
(* WriteMessage returns, with one exception: the peer of the transport     *)
(* Stalled may stop reading, and a write to it then never returns (no      *)
(* write deadline is ever set).  What the clients send, and when, is up to *)
(* them.                                                                   *)
(***************************************************************************)
Stalled == "c3"

LockFairness ==
    /\ \A c \in Conns :
           /\ WF_vars(JoinLockCall(c))
           /\ WF_vars(JoinLock(c))
           /\ WF_vars(JoinInsert(c))
           /\ WF_vars(JoinFetch(c))
           /\ WF_vars(LogRoomStatus(c))
           /\ WF_vars(NotifyLeftRLock(c))
           /\ WF_vars(CleanupLockCall(c))
           /\ WF_vars(CleanupLocked(c))
           /\ WF_vars(RelayRLock(c))
           /\ WF_vars(JoinWritten(c) /\ WritingTo(c) # Stalled)
           /\ WF_vars(NotifyLeftWritten(c) /\ WritingTo(c) # Stalled)
           /\ WF_vars(RelayWritten(c) /\ WritingTo(c) # Stalled)
           /\ WF_vars(JoinConfirm(c) /\ WritingTo(c) # Stalled)
    /\ \A s \in DelSlots :
           /\ WF_vars(DeleteRecord(s))
           /\ WF_vars(DeleteLockCall(s))
           /\ WF_vars(DeleteUnmap(s))
           /\ WF_vars(DeleteUntrack(s))

FairSpec == Spec /\ LockFairness

\* The scheduling when every peer keeps reading: every WriteMessage returns.
WriteFairness ==
    \A c \in Conns :
        /\ WF_vars(JoinWritten(c))
        /\ WF_vars(NotifyLeftWritten(c))
        /\ WF_vars(RelayWritten(c))
        /\ WF_vars(JoinConfirm(c))

LiveSpec == Spec /\ LockFairness /\ WriteFairness

(***************************************************************************)
(* Vocabulary of the properties.                                           *)
(***************************************************************************)
Range(s) == {s[i] : i \in 1..Len(s)}
Count(s, c) == Cardinality({i \in 1..Len(s) : s[i] = c})
Members(r) == IF r \in DOMAIN rooms THEN rooms[r] ELSE << >>

TypeOK ==
    /\ DOMAIN rooms \subseteq RoomIds
    /\ \A r \in DOMAIN rooms : Range(rooms[r]) \subseteq Conns
    /\ \A c \in Conns :
           pc[c] \in {"read", "join", "joinLock", "joinInsert", "joinFetch",
                      "joinWriteMember", "joinWriteSelf", "joined", "logStatus",
                      "notifyLeft", "leftWrite", "cleanup", "cleanupLock",
                      "relay", "relayWrite", "closing", "closingLock", "closed"}
    /\ \A s \in DelSlots :
           del[s].pc \in {"idle", "refused", "delete", "unmap", "unmapLock",
                          "untrack", "deleted"}
    /\ Cardinality(mutexWriters) + Cardinality(mutexAnnounced)
           + Cardinality(delAnnounced) <= 1
    /\ mutexWriters = {} \/ mutexReaders = {}
    /\ nin \in Nat


\* What a step writes to the transport of d.
NewSent(d) == SubSeq(sent'[d], Len(sent[d]) + 1, Len(sent'[d]))
\* The writes on the transport of d that the task of b made for event e, room r.
Writes(d, b, e, r) ==
    {i \in 1..Len(sent[d]) : /\ sent[d][i].by = b
                             /\ sent[d][i].data.event = e
                             /\ sent[d][i].data.roomId = r}
\* The writes on the transport of d that the task of b made while it handled
\* its n-th frame.
WritesAt(d, b, n) == {i \in 1..Len(sent[d]) : sent[d][i].by = b /\ sent[d][i].at = n}
\* The bytes of a user-joined event.
UserJoined(r, n) == Marshal(Message("user-joined", r, UserNamePayload(n)))
\* The frames read, all connections together.
RECURSIVE SumLen(_)
SumLen(S) == IF S = {} THEN 0
             ELSE LET c == CHOOSE c \in S : TRUE IN Len(hist[c]) + SumLen(S \ {c})
FramesRead == SumLen(Conns)
\* Nothing but join frames for room r was ever taken, at most one a
\* connection: no other frame, no read error, no deletion request.
OnlyJoinsTo(r) ==
    /\ nin = FramesRead
    /\ DelTaken = 0
    /\ \A c \in Conns : hist[c] = << >> \/ hist[c] = << <<"join", r>> >>
\* The task of c is past the lock section of its join handler.
PastJoinSection(c) == pc[c] \in {"joined", "logStatus", "read"}
\* The connections whose join has been registered.
Registered == {c \in Conns : hist[c] # << >> /\ PastJoinSection(c)}
LastRead(c) == hist[c][Len(hist[c])]
Settled == \A c \in Conns : pc[c] = "read"
\* The positions in the log of d's transport that hold event e.
Positions(d, e) == {i \in 1..Len(sent[d]) : sent[d][i].data.event = e}
\* In the log `log`: what the task of b wrote to the transport of d while it
\* handled its n-th frame, in order.
SentAt(log, d, b, n) ==
    LET ByHandler(w) == w.by = b /\ w.at = n
    IN SelectSeq(log[d], ByHandler)
(***************************************************************************)
(* C1.  When the only frames ever read are joins of N distinct connections *)
(* to one room, the member list of that room holds exactly the connections *)
(* registered so far, once each, in whatever order the joins were          *)
(* processed; and a connection that was a member when another one joined   *)
(* was written exactly one user-joined by the joiner's task, naming the    *)
(* joiner.                                                                 *)
(***************************************************************************)
C1_JoinsAllRegistered ==
    \A r \in RoomIds :
        OnlyJoinsTo(r) =>
            /\ Len(Members(r)) = Cardinality(Registered)
            /\ Range(Members(r)) = Registered
            /\ \A a, b \in Registered :
                   (a # b /\ FirstIndex(Members(r), a) < FirstIndex(Members(r), b)) =>
                       /\ Cardinality(Writes(a, b, "user-joined", r)) = 1
                       /\ \A i \in Writes(a, b, "user-joined", r) :
                              sent[a][i].data = UserJoined(r, UserName[b])
                       /\ Writes(b, a, "user-joined", r) = {}

\* All three connections joined r1, one join each, and every handler has
\* returned.
C1_Witness ==
    /\ OnlyJoinsTo("r1")
    /\ Registered = Conns
    /\ Len(Members("r1")) = 3
    /\ Settled

(***************************************************************************)
(* C2.  Presence on join is mutual.  When the join handler of a connection *)
(* c that is not yet in the room appends c and unlocks, it has written     *)
(* exactly one user-joined naming c to every connection already in the     *)
(* room, and to c exactly one user-joined per connection already in the    *)
(* room, carrying that connection's display name (the name as it is, or    *)
(* the empty name the connection had when the handler read it for the      *)
(* call).                                                                  *)
(***************************************************************************)
C2_JoinSection ==
    \A c \in Conns :
        (/\ pc[c] \in {"joinLock", "joinInsert", "joinFetch", "joinWriteMember",
                       "joinWriteSelf"}
         /\ pc'[c] = "joined"
         /\ c \notin Range(Members(cur[c].roomID))) =>
            LET r == cur[c].roomID
                present == Range(Members(r))
                n == Len(hist[c])
                toJoiner == SentAt(sent', c, c, n)
            IN /\ \A d \in Conns \ {c} :
                      /\ Len(SentAt(sent', d, c, n)) = IF d \in present THEN 1 ELSE 0
                      /\ d \in present =>
                             SentAt(sent', d, c, n)[1].data = UserJoined(r, UserName[c])
               /\ Len(toJoiner) = Cardinality(present)
               /\ \A d \in present :
                      \E i \in 1..Len(toJoiner) :
                          \/ toJoiner[i].data = UserJoined(r, UserName[d])
                          \/ toJoiner[i].data = UserJoined(r, "")

\* C2: every join of a newcomer announces the newcomer once to each
\* connection in the room and each connection in the room once to the
\* newcomer.
C2_MutualPresence ==
    [][C2_JoinSection]_vars

(***************************************************************************)
(* C3.  Every offer, answer or ice-candidate written to a transport is,    *)
(* byte for byte, a frame the writer's own connection sends, and it is the *)
(* frame the writer was handling when it wrote: the relay re-encodes       *)
(* nothing.                                                                *)
(***************************************************************************)
C3_RelayFidelity ==
    \A d \in Conns : \A i \in 1..Len(sent[d]) :
        LET w == sent[d][i]
        IN w.data.event \in RelayEvents =>
               /\ w.data \in RelayFrames(w.by)
               /\ w.at \in 1..Len(hist[w.by])
               /\ hist[w.by][w.at] = <<w.data.event, w.data.roomId>>

\* A frame whose bytes are not the canonical ones reached another
\* connection as it was sent.
C3_Witness ==
    \E d \in Conns : \E i \in 1..Len(sent[d]) :
        /\ sent[d][i].ok
        /\ sent[d][i].data.event = "answer"
        /\ sent[d][i].data.enc = "loose"
        /\ sent[d][i].by # d

(***************************************************************************)
(* C4.  While it handles one offer, answer or ice-candidate frame, the     *)
(* task of the sender writes at most once to every connection and never    *)
(* to its own.                                                             *)
(***************************************************************************)
C4_AtMostOnce ==
    \A b, d \in Conns : \A n \in 1..Len(hist[b]) :
        hist[b][n][1] \in RelayEvents =>
            /\ Cardinality(WritesAt(d, b, n)) <= 1
            /\ WritesAt(b, b, n) = {}

(***************************************************************************)
(* C5.  Whatever a task writes to the transport of another connection      *)
(* (user-joined, user-left, a relayed frame) carries the id of a room that *)
(* connection is a member of at the write; what a task writes to its own   *)
(* transport is the answer to its own join (user-joined, joined) and       *)
(* carries the id of the room it is joining.  So no connection that sits   *)
(* only in room B is written a message of room A.                          *)
(***************************************************************************)
C5_Step ==
    \A d \in Conns : \A i \in 1..Len(NewSent(d)) :
        LET w == NewSent(d)[i]
        IN IF w.by # d
           THEN d \in Range(Members(w.data.roomId))
           ELSE /\ w.data.event \in {"user-joined", "joined"}
                /\ w.data.roomId = cur[d].roomID

\* C5: no step writes a message of a room to another connection that is not a
\* member of that room.
C5_RoomIsolation ==
    [][C5_Step]_vars

\* c2 sits only in r2 while a frame was relayed in r1 or a member of r1 was
\* told that another left: c2 was written nothing of r1.
C5_Witness ==
    /\ "c2" \in Range(Members("r2"))
    /\ "c2" \notin Range(Members("r1"))
    /\ hist["c2"] = << <<"join", "r2">> >>
    /\ \E d \in Range(Members("r1")) : \E i \in 1..Len(sent[d]) :
           /\ sent[d][i].by # d
           /\ sent[d][i].data.event \in RelayEvents \cup {"user-left"}
           /\ sent[d][i].data.roomId = "r1"
    /\ \A i \in 1..Len(sent["c2"]) : sent["c2"][i].data.roomId = "r2"

(***************************************************************************)
(* C6.  A task that stands at a write of relayMessageToRoom handles the    *)
(* frame of a member of the room the frame names: a connection outside     *)
(* the room causes no write.                                               *)
(***************************************************************************)
C6_RelayOnlyByMembers ==
    \A c \in Conns :
        pc[c] = "relayWrite" => c \in Range(Members(cur[c].roomID))

(***************************************************************************)
(* C7.  A connection whose read failed and whose cleanup has run is in no  *)
(* member list.                                                            *)
(***************************************************************************)
C7_ClosedIsNowhere ==
    \A c \in Conns : pc[c] = "closed" => RoomsHolding(c) = {}

(***************************************************************************)
(* C8.  Only the deletion request removes a room id from the registry: the *)
(* cleanup of a leave or of a read error keeps every id, also that of a    *)
(* room it empties; and a join that finds the id in the registry, with or  *)
(* without members, does not go to addActiveRoom, and when the list is     *)
(* empty makes the joiner its sole member.                                 *)
(***************************************************************************)
C8_Step ==
    /\ delAnnounced = {} => DOMAIN rooms \subseteq DOMAIN rooms'
    /\ \A c \in Conns :
           (pc[c] \in {"cleanupLock", "closingLock"} /\ pc'[c] # pc[c]) =>
               /\ DOMAIN rooms' = DOMAIN rooms
               /\ \A r \in DOMAIN rooms :
                      (rooms[r] = <<c>> /\ rooms'[r] # rooms[r]) => rooms'[r] = << >>
    /\ \A c \in Conns :
           (pc[c] = "joinLock" /\ pc'[c] # "joinLock" /\ cur[c].roomID \in DOMAIN rooms) =>
               /\ pc'[c] # "joinInsert"
               /\ DOMAIN rooms' = DOMAIN rooms
               /\ dbRooms' = dbRooms
               /\ activeRooms' = activeRooms
               /\ rooms[cur[c].roomID] = << >> => rooms'[cur[c].roomID] = <<c>>

\* C8: no step but the deletion removes a room id; a join to a room that is
\* there creates nothing.
C8_RoomSurvivesEmptiness ==
    [][C8_Step]_vars

\* The anonymous c2 joined r1 alone and its transport failed; then the
\* authenticated c1 joined: it is the sole member, and no record was created
\* for it.
C8_Witness ==
    /\ nin = 3
    /\ hist["c2"] = << <<"join", "r1">> >> /\ pc["c2"] = "closed"
    /\ hist["c1"] = << <<"join", "r1">> >>
    /\ pc["c1"] = "read"
    /\ Members("r1") = <<"c1">>
    /\ DOMAIN rooms = {"r1"}
    /\ dbRooms = << >>
    /\ activeRooms = << >>

(***************************************************************************)
(* C9.  A leave of a member of the room it names, whatever its payload:    *)
(* the handler goes on to notifyUserLeft when the room has other members,  *)
(* notifyUserLeft has written one user-left to every other member when it  *)
(* returns, and the cleanup that ends the handler leaves the connection    *)
(* out of that room's list.                                                *)
(***************************************************************************)
C9_Step ==
    \A c \in Conns :
        /\ (/\ pc[c] = "read"
            /\ Len(hist'[c]) > Len(hist[c])
            /\ hist'[c][Len(hist'[c])][1] = "leave"
            /\ c \in Range(Members(hist'[c][Len(hist'[c])][2]))
            /\ Range(Members(hist'[c][Len(hist'[c])][2])) # {c}) =>
               pc'[c] = "notifyLeft"
        /\ (pc[c] = "leftWrite" /\ pc'[c] = "cleanup"
            /\ c \in Range(Members(cur[c].roomID))) =>
               \A d \in Range(Members(cur[c].roomID)) \ {c} :
                   /\ Len(SentAt(sent', d, c, Len(hist[c]))) = 1
                   /\ SentAt(sent', d, c, Len(hist[c]))[1].data.event = "user-left"
        /\ (pc[c] = "cleanupLock" /\ pc'[c] = "read"
            /\ c \in Range(Members(LastRead(c)[2]))) =>
               c \notin Range(rooms'[LastRead(c)[2]])

\* C9: every leave of a member notifies each other member once and removes
\* the leaver from the room, whatever the payload.
C9_LeaveNotifiesAndRemoves ==
    [][C9_Step]_vars

(***************************************************************************)
(* C10.  No step of the leave handler of a connection that is in no member *)
(* list changes a member list or writes to a transport.                    *)
(***************************************************************************)
C10_Step ==
    \A c \in Conns :
        (/\ pc[c] \in {"notifyLeft", "leftWrite", "cleanup", "cleanupLock"}
         /\ (pc'[c] # pc[c] \/ cur'[c] # cur[c])
         /\ RoomsHolding(c) = {}) =>
            /\ rooms' = rooms
            /\ sent' = sent

\* C10: the leave of a connection registered nowhere writes nothing and
\* changes no member list.
C10_LeaveOfNonMember ==
    [][C10_Step]_vars

(***************************************************************************)
(* C11.  A read error and the cleanup that follows it write to no          *)
(* transport; the cleanup takes one entry of the connection out of the     *)
(* registry when it has one.  Every user-left ever written was written by  *)
(* a task while it handled a leave frame for that room: no user-left comes *)
(* from a transport failure.                                               *)
(***************************************************************************)
C11_Step ==
    \A c \in Conns :
        /\ (pc[c] \in {"read", "closing"} /\ pc'[c] \in {"closing", "closingLock"}
            /\ pc'[c] # pc[c]) =>
               (sent' = sent /\ rooms' = rooms)
        /\ (pc[c] = "closingLock" /\ pc'[c] = "closed") =>
               /\ sent' = sent
               /\ RoomsHolding(c) # {} =>
                      \E r \in RoomsHolding(c) :
                          /\ Count(rooms'[r], c) = Count(rooms[r], c) - 1
                          /\ Len(rooms'[r]) = Len(rooms[r]) - 1

C11_UserLeftOnlyByLeave ==
    \A d \in Conns : \A i \in 1..Len(sent[d]) :
        LET w == sent[d][i]
        IN w.data.event = "user-left" =>
               /\ w.at \in 1..Len(hist[w.by])
               /\ hist[w.by][w.at] = <<"leave", w.data.roomId>>

\* C11: a transport failure unregisters without writing anything; user-left
\* is only ever caused by a leave frame.
C11_TransportFailureIsSilent ==
    /\ [][C11_Step]_vars
    /\ []C11_UserLeftOnlyByLeave

\* c joined r1 where d sits, its read failed and the cleanup ran: d is alone
\* in the room and was told of the join, never of a departure.
C11_Witness ==
    \E c, d \in Conns :
        /\ c # d
        /\ pc[c] = "closed"
        /\ hist[c] = << <<"join", "r1">> >>
        /\ Members("r1") = <<d>>
        /\ Writes(d, c, "user-joined", "r1") # {}
        /\ \A i \in 1..Len(sent[d]) : sent[d][i].data.event # "user-left"

(***************************************************************************)
(* C12.  As claimed: when the only frames read are single joins to one     *)
(* room and every join has been answered, each member was written its      *)
(* joined before any user-joined.                                          *)
(***************************************************************************)
\* C12 (as claimed): every member is written joined before user-joined.
C12_JoinedBeforeUserJoined ==
    \A r \in RoomIds :
        (OnlyJoinsTo(r) /\ Settled) =>
            \A c \in Registered :
                \A i \in Positions(c, "user-joined") :
                    \E j \in Positions(c, "joined") : j < i

(***************************************************************************)
(* C12, amended.  In the same scenario every member was written exactly    *)
(* one joined, by its own task and after every user-joined that task wrote *)
(* to it (the names of the members it found); and exactly one user-joined  *)
(* naming each other member.  The user-joined naming a later joiner is     *)
(* written by that joiner's task and may come before or after the joined.  *)
(***************************************************************************)
C12_Amended ==
    \A r \in RoomIds :
        (OnlyJoinsTo(r) /\ Settled) =>
            \A c \in Registered :
                /\ Cardinality(Positions(c, "joined")) = 1
                /\ \A j \in Positions(c, "joined") :
                       /\ sent[c][j].by = c
                       /\ sent[c][j].data = Marshal(Message("joined", r, PAbsent))
                       /\ \A i \in Writes(c, c, "user-joined", r) : i < j
                /\ \A d \in Registered \ {c} :
                       /\ Cardinality(Writes(c, c, "user-joined", r)
                                          \cup Writes(c, d, "user-joined", r)) >= 1
                       /\ FirstIndex(Members(r), d) < FirstIndex(Members(r), c) =>
                              \E i \in Writes(c, c, "user-joined", r) :
                                  sent[c][i].data = UserJoined(r, UserName[d])
                       /\ FirstIndex(Members(r), c) < FirstIndex(Members(r), d) =>
                              /\ Cardinality(Writes(c, d, "user-joined", r)) = 1
                              /\ \A i \in Writes(c, d, "user-joined", r) :
                                     sent[c][i].data = UserJoined(r, UserName[d])
                /\ Len(sent[c]) = Cardinality(Registered)

\* c1 joined r1 and was confirmed, then c2 joined: c2 was written the name of
\* c1 first and its joined second.
C12_Witness ==
    /\ OnlyJoinsTo("r1")
    /\ Settled
    /\ Members("r1") = <<"c1", "c2">>
    /\ Len(sent["c1"]) = 2 /\ Len(sent["c2"]) = 2
    /\ sent["c1"][1].data.event = "joined"
    /\ sent["c1"][2].data = UserJoined("r1", UserName["c2"])
    /\ sent["c2"][1].data = UserJoined("r1", "ashu")
    /\ sent["c2"][2].data.event = "joined"

\* The same two joins, with the joined of c1 written after c2's task told
\* c1 of c2: the confirmation of the earlier member races with the later
\* join.
C12_RaceWitness ==
    /\ OnlyJoinsTo("r1")
    /\ Settled
    /\ Members("r1") = <<"c1", "c2">>
    /\ Len(sent["c1"]) = 2
    /\ sent["c1"][1].data = UserJoined("r1", UserName["c2"])
    /\ sent["c1"][2].data.event = "joined"

(***************************************************************************)
(* C13.  No task stands at a write to a transport while it is inside a     *)
(* mutex.Lock() or mutex.RLock() section.                                  *)
(***************************************************************************)
C13_NoWriteUnderLock ==
    \A c \in Conns :
        WritingTo(c) # "" => c \notin mutexWriters \cup mutexReaders

(***************************************************************************)
(* C14.  While writes to the transport Stalled may never return, the task  *)
(* of every other connection that is about to take the registry lock or    *)
(* waits for it, for a join, for the broadcast of a leave or for a         *)
(* cleanup, gets past that point.  (The claim asks for more, that the      *)
(* handler completes; a handler that never gets the lock never completes.) *)
(***************************************************************************)
AtLock(c) ==
    pc[c] \in {"join", "joinLock", "notifyLeft", "cleanup", "cleanupLock",
               "closing", "closingLock"}

\* C14: no join, leave or cleanup of another connection waits for ever for
\* the registry lock because a write to the stalled transport does not return.
C14_NoStarvation ==
    \A c \in Conns \ {Stalled} : AtLock(c) ~> ~AtLock(c)

(***************************************************************************)
(* C15.  No two tasks stand at a write to the same transport.              *)
(***************************************************************************)
C15_WritesSerialized ==
    \A a, b \in Conns :
        (a # b /\ WritingTo(a) # "") => WritingTo(a) # WritingTo(b)

(***************************************************************************)
(* C16.  The signaling frames one sender relayed to a room stand in the    *)
(* log of every recipient's transport in the order in which the sender's   *)
(* task read them: the frames written to the recipient, one after the      *)
(* other, are found in that order among the frames read (a frame written   *)
(* to a recipient more than once, for a recipient listed more than once,   *)
(* counts as one).  Nothing of the kind is said of the frames of two       *)
(* senders.                                                                *)
(***************************************************************************)
\* The (event, room) of the signaling frames of room r that b wrote to d, in
\* the order of the log of d's transport.
RelayedTo(d, b, r) ==
    LET IsRelay(w) == w.by = b /\ w.data.event \in RelayEvents /\ w.data.roomId = r
        ws == SelectSeq(sent[d], IsRelay)
    IN [i \in 1..Len(ws) |-> <<ws[i].data.event, ws[i].data.roomId>>]

\* The (event, room) of the signaling frames of room r that the task of b
\* read, in the order it read them.
RelaysRead(b, r) ==
    LET IsRelay(h) == h[1] \in RelayEvents /\ h[2] = r
    IN SelectSeq(hist[b], IsRelay)

\* The frames ws occur in the frames hs in the same order.
RECURSIVE InOrderOf(_, _)
InOrderOf(ws, hs) ==
    IF ws = << >> THEN TRUE
    ELSE IF hs = << >> THEN FALSE
    ELSE IF Head(ws) = Head(hs) THEN InOrderOf(Tail(ws), hs)
    ELSE InOrderOf(ws, Tail(hs))

\* C16: what one sender relays to a room reaches every recipient in the
\* order in which the sender sent it.
C16_PerSenderOrder ==
    \A d, b \in Conns : \A r \in RoomIds : InOrderOf(RelayedTo(d, b, r), RelaysRead(b, r))

\* c2 sent an answer and then a candidate to r1; a member got both, the
\* answer first.
C16_Witness ==
    \E d \in Conns \ {"c2"} :
        /\ hist["c2"] = << <<"answer", "r1">>, <<"ice-candidate", "r1">> >>
        /\ RelayedTo(d, "c2", "r1") = << <<"answer", "r1">>, <<"ice-candidate", "r1">> >>
        /\ \A i \in 1..Len(sent[d]) : sent[d][i].by = "c2" => sent[d][i].ok

(***************************************************************************)
(* C17.  A fan-out writes once per entry of the room, whether the writes   *)
(* succeed or fail.  When the loop of a relay or of a user-left broadcast  *)
(* of task c ends, the handler has written the message once to every entry *)
(* of another connection and nothing to c, and the registry is as it was;  *)
(* when the loop of a join ends, the handler has written one user-joined   *)
(* naming the joiner to every entry and one to the joiner per entry, and   *)
(* the registry changes by the joiner's own entry only.  So a write that   *)
(* fails is followed by the writes to the entries after it and is not      *)
(* repeated.                                                               *)
(***************************************************************************)
C17_Step ==
    \A c \in Conns :
        LET r == cur[c].roomID
            members == Members(r)
            n == Len(hist[c])
        IN /\ (pc[c] = "relayWrite" /\ pc'[c] = "read") =>
                  /\ rooms' = rooms
                  /\ SentAt(sent', c, c, n) = << >>
                  /\ \A d \in Conns \ {c} :
                         /\ Len(SentAt(sent', d, c, n)) = Count(members, d)
                         /\ \A i \in 1..Len(SentAt(sent', d, c, n)) :
                                SentAt(sent', d, c, n)[i].data = cur[c].message
           /\ (pc[c] = "leftWrite" /\ pc'[c] = "cleanup") =>
                  /\ rooms' = rooms
                  /\ SentAt(sent', c, c, n) = << >>
                  /\ \A d \in Conns \ {c} :
                         /\ Len(SentAt(sent', d, c, n)) = Count(members, d)
                         /\ \A i \in 1..Len(SentAt(sent', d, c, n)) :
                                SentAt(sent', d, c, n)[i].data =
                                    Marshal(Message("user-left", r,
                                                    UserNamePayload(cur[c].userName)))
           /\ (pc[c] \in {"joinWriteMember", "joinWriteSelf"} /\ pc'[c] = "joined") =>
                  /\ rooms' = With(rooms, r, Append(members, c))
                  /\ \A d \in Conns \ {c} :
                         /\ Len(SentAt(sent', d, c, n)) = Count(members, d)
                         /\ \A i \in 1..Len(SentAt(sent', d, c, n)) :
                                SentAt(sent', d, c, n)[i].data = UserJoined(r, UserName[c])
                  /\ Len(SentAt(sent', c, c, n)) = Len(members) + Count(members, c)
                  /\ \A i \in 1..Len(SentAt(sent', c, c, n)) :
                         SentAt(sent', c, c, n)[i].data.event = "user-joined"

\* C17: a failed write neither stops a fan-out nor is repeated, changes no
\* registry entry and puts nothing on the sender's transport.
C17_FanOutSurvivesFailure ==
    [][C17_Step]_vars

\* d and e are in r1 and the transport of d is gone; c, not in the room,
\* relayed a frame to r1: the write to d failed, the same frame was then
\* written to e, nothing was written to c, and d is still listed.
C17_Witness ==
    \E c, d, e \in Conns :
        /\ c # d /\ c # e /\ d # e
        /\ Members("r1") = <<d, e>>
        /\ ~alive[d]
        /\ pc[c] = "read"
        /\ hist[c] # << >>
        /\ LastRead(c)[1] \in RelayEvents
        /\ LET n == Len(hist[c])
           IN /\ Len(SentAt(sent, d, c, n)) = 1
              /\ ~SentAt(sent, d, c, n)[1].ok
              /\ Len(SentAt(sent, e, c, n)) = 1
              /\ SentAt(sent, e, c, n)[1].ok
              /\ SentAt(sent, e, c, n)[1].data = SentAt(sent, d, c, n)[1].data
        /\ sent[c] = << >>

\* The same for a user-left broadcast: c left r1, the write to d failed and
\* e was told all the same.
C17_LeftWitness ==
    \E c, d, e \in Conns :
        /\ c # d /\ c # e /\ d # e
        /\ ~alive[d]
        /\ Members("r1") = <<d, e>>
        /\ hist[c] # << >>
        /\ LastRead(c) = <<"leave", "r1">>
        /\ LET n == Len(hist[c])
           IN /\ Len(SentAt(sent, d, c, n)) = 1
              /\ ~SentAt(sent, d, c, n)[1].ok
              /\ SentAt(sent, d, c, n)[1].data.event = "user-left"
              /\ Len(SentAt(sent, e, c, n)) = 1
              /\ SentAt(sent, e, c, n)[1].ok
              /\ SentAt(sent, e, c, n)[1].data = SentAt(sent, d, c, n)[1].data

\* The same for a join: the user-joined naming c could not be written to d
\* and was then written to e.
C17_JoinWitness ==
    \E c, d, e \in Conns :
        /\ c # d /\ c # e /\ d # e
        /\ ~alive[d]
        /\ Members("r1") = <<d, e, c>>
        /\ LET n == Len(hist[c])
           IN /\ Len(SentAt(sent, d, c, n)) = 1
              /\ ~SentAt(sent, d, c, n)[1].ok
              /\ Len(SentAt(sent, e, c, n)) = 1
              /\ SentAt(sent, e, c, n)[1].ok
              /\ SentAt(sent, e, c, n)[1].data = UserJoined("r1", UserName[c])
              /\ SentAt(sent, d, c, n)[1].data = UserJoined("r1", UserName[c])

(***************************************************************************)
(* C18.  Reading a frame that is no JSON envelope, or whose event is none  *)
(* of join, leave, offer, answer, ice-candidate, changes nothing but the   *)
(* count of frames read: no member list, no display name, no transport log *)
(* changes, and the task is back at its read with the transport open.      *)
(***************************************************************************)
KnownEvents == {"join", "leave", "offer", "answer", "ice-candidate"}

C18_Step ==
    \A c \in Conns :
        (/\ Len(hist'[c]) > Len(hist[c])
         /\ hist'[c][Len(hist'[c])][1] \notin KnownEvents) =>
            /\ rooms' = rooms
            /\ UserName' = UserName
            /\ sent' = sent
            /\ alive' = alive
            /\ pc'[c] = "read"
            /\ cur' = cur
            /\ dbRooms' = dbRooms /\ activeRooms' = activeRooms

\* C18: a malformed frame or an unknown event is dropped without effect and
\* the connection reads on.
C18_BadFramesDropped ==
    [][C18_Step]_vars

\* A connection whose first frame was dropped sent a join next and was
\* registered and confirmed.
C18_Witness ==
    \E c \in Conns :
        /\ Len(hist[c]) = 2
        /\ hist[c][1][1] \notin KnownEvents
        /\ hist[c][2] = <<"join", "r1">>
        /\ Members("r1") = <<c>>
        /\ pc[c] = "read"
        /\ Len(sent[c]) = 1
        /\ sent[c][1].data.event = "joined"

(***************************************************************************)
(* C19.  A connection that has read a join has a display name: the         *)
(* authenticated name, else the payload's userName when the payload is an  *)
(* object that carries a non-empty one, else "Anonymous".                  *)
(***************************************************************************)
HasReadJoin(c) == \E i \in 1..Len(hist[c]) : hist[c][i][1] = "join"

\* C19: after its first join no connection has an empty display name.
C19_NamedAfterJoin ==
    \A c \in Conns :
        HasReadJoin(c) =>
            /\ UserName[c] # ""
            /\ authUsername(c) = "" => UserName[c] \in {ClientName(c), "Anonymous"}

(***************************************************************************)
(* C20.  No step changes a display name that is not empty.                 *)
(***************************************************************************)
C20_Step ==
    \A c \in Conns : UserName[c] # "" => UserName'[c] = UserName[c]

\* C20: a display name, once set, stays.
C20_NameIsStable ==
    [][C20_Step]_vars

\* c2 was named "Anonymous" by its first join (its payload was a JSON
\* string); it later left r1 with a payload naming "bob": the member of r1 was
\* told that "bob" left, and the display name of c2 is what it was.
C20_Witness ==
    /\ UserName["c2"] = "Anonymous"
    /\ UserName["c1"] = "ashu"
    /\ Len(hist["c2"]) = 2
    /\ hist["c2"][1][1] = "join"
    /\ hist["c2"][2] = <<"leave", "r1">>
    /\ \E d \in Conns \ {"c2"} : \E i \in 1..Len(sent[d]) :
           sent[d][i] = [data |-> Marshal(Message("user-left", "r1", UserNamePayload("bob"))),
                         by |-> "c2", at |-> 2, ok |-> TRUE]

(***************************************************************************)
(* C21.  addActiveRoom is called by a join exactly when the room id is not *)
(* in the registry and the joiner is authenticated (a name other than ""   *)
(* and "Anonymous", a user id above 0): that join stores the joiner as the *)
(* creator in activeRooms and goes on to insert the row (an id that has a  *)
(* row keeps it).  Every other join (to a room that is there, by an        *)
(* anonymous first member, a repeated one) and every other step adds       *)
(* nothing to either.  While no deletion was requested, a row is that of   *)
(* a room in the registry, and it names the user whose join created it.    *)
(***************************************************************************)
Authenticated(c) == UserName[c] # "" /\ UserName[c] # "Anonymous" /\ userID(c) > 0

C21_Step ==
    /\ \A c \in Conns :
           (pc[c] = "joinLock" /\ pc'[c] # "joinLock") =>
               IF cur[c].roomID \notin DOMAIN rooms /\ Authenticated(c)
               THEN /\ pc'[c] = "joinInsert"
                    /\ activeRooms' = With(activeRooms, cur[c].roomID, UserName[c])
                    /\ dbRooms' = dbRooms
               ELSE /\ pc'[c] # "joinInsert"
                    /\ dbRooms' = dbRooms /\ activeRooms' = activeRooms
    /\ \A c \in Conns :
           (pc[c] = "joinInsert" /\ pc'[c] # "joinInsert") =>
               /\ dbRooms' = IF cur[c].roomID \in DOMAIN dbRooms
                             THEN dbRooms
                             ELSE With(dbRooms, cur[c].roomID, userID(c))
               /\ activeRooms' = activeRooms
    /\ (\A c \in Conns : ~(pc[c] \in {"joinLock", "joinInsert"} /\ pc'[c] # pc[c])) =>
           /\ DOMAIN dbRooms' \subseteq DOMAIN dbRooms
           /\ DOMAIN activeRooms' \subseteq DOMAIN activeRooms

C21_OneRecordPerRoom ==
    DelTaken = 0 =>
        \A r \in DOMAIN dbRooms :
            /\ r \in DOMAIN rooms /\ r \in DOMAIN activeRooms
            /\ \E c \in Conns :
                   /\ dbRooms[r] = userID(c) /\ activeRooms[r] = authUsername(c)
                   /\ <<"join", r>> \in Range(hist[c])

\* C21: the durable create is called once, by the join of an authenticated
\* first member, and by no other join.
C21_CreateOnlyByFirstAuthenticated ==
    /\ [][C21_Step]_vars
    /\ []C21_OneRecordPerRoom

\* The authenticated c1 opened r1 and joined it a second time, the anonymous
\* c2 opened r2: one record, that of r1 by user 1.
C21_Witness ==
    /\ dbRooms = [r \in {"r1"} |-> 1]
    /\ activeRooms = [r \in {"r1"} |-> "ashu"]
    /\ Members("r1") = <<"c1", "c1">>
    /\ Members("r2") = <<"c2">>
    /\ Settled

(***************************************************************************)
(* C22.  A row leaves the table only in the step in which DeleteRoom of a  *)
(* deletion request returns, and the request is one of the user the row    *)
(* names as its creator; a room id leaves the registry only in the         *)
(* registry step of such a request, and the id has no row then: the        *)
(* request removed the room from both.  A request is accepted only from    *)
(* the creator of the row it finds.  No step of a connection's task        *)
(* (leave, cleanup after a read error, join, relay) removes a row.         *)
(***************************************************************************)
ConnStep == pc' # pc \/ alive' # alive \/ hist' # hist

C22_Step ==
    /\ ~(DOMAIN dbRooms \subseteq DOMAIN dbRooms') =>
           /\ ~ConnStep
           /\ \E s \in DelSlots :
                  /\ del[s].pc = "delete" /\ del'[s].pc = "unmap"
                  /\ dbRooms[del[s].roomID] = del[s].userID
                  /\ dbRooms' = Without(dbRooms, del[s].roomID)
    /\ ~(DOMAIN rooms \subseteq DOMAIN rooms') =>
           /\ ~ConnStep
           /\ \E s \in DelSlots :
                  /\ del[s].pc = "unmapLock" /\ del'[s].pc = "untrack"
                  /\ rooms' = Without(rooms, del[s].roomID)
                  /\ del[s].roomID \notin DOMAIN dbRooms'
    /\ \A s \in DelSlots :
           (del[s].pc = "idle" /\ del'[s].pc # "idle") =>
               /\ rooms' = rooms /\ dbRooms' = dbRooms /\ activeRooms' = activeRooms
               /\ del'[s].pc = "delete" =>
                      /\ del'[s].roomID \in DOMAIN dbRooms
                      /\ dbRooms[del'[s].roomID] = del'[s].userID
    /\ ConnStep => DOMAIN dbRooms \subseteq DOMAIN dbRooms'

\* C22: only the creator's deletion request removes a room, and it removes it
\* from the table and from the registry; a refused request and the tasks of
\* the connections remove nothing.
C22_OnlyCreatorDeletes ==
    [][C22_Step]_vars

(***************************************************************************)
(* C23.  A room id enters the registry only in the step in which the       *)
(* mutex.Lock() of a join returns, and it is the id that join names.  The  *)
(* steps of a leave (the broadcast, the cleanup) and of a relay that name  *)
(* an id absent from the registry leave the set of ids as it is, write to  *)
(* no transport and take the task on: the broadcast to the cleanup, the    *)
(* cleanup and the relay back to the read, the transport open.             *)
(***************************************************************************)
C23_Step ==
    /\ ~(DOMAIN rooms' \subseteq DOMAIN rooms) =>
           \E c \in Conns :
               /\ pc[c] = "joinLock" /\ pc'[c] # "joinLock"
               /\ DOMAIN rooms' = DOMAIN rooms \cup {cur[c].roomID}
    /\ \A c \in Conns :
           /\ (pc[c] = "relay" /\ pc'[c] # "relay" /\ cur[c].roomID \notin DOMAIN rooms) =>
                  /\ rooms' = rooms
                  /\ sent' = sent
                  /\ pc'[c] = "read" /\ alive'[c]
           /\ (pc[c] = "notifyLeft" /\ pc'[c] # "notifyLeft"
                   /\ cur[c].roomID \notin DOMAIN rooms) =>
                  /\ rooms' = rooms
                  /\ sent' = sent
                  /\ pc'[c] = "cleanup" /\ alive'[c]
           /\ (pc[c] \in {"cleanup", "cleanupLock"} /\ pc'[c] # pc[c]
                   /\ LastRead(c)[2] \notin DOMAIN rooms) =>
                  /\ DOMAIN rooms' = DOMAIN rooms
                  /\ sent' = sent
                  /\ pc'[c] = (IF pc[c] = "cleanup" THEN "cleanupLock" ELSE "read")
                  /\ alive'[c]

\* C23: only a join adds a room id; a leave or a relay for an absent id
\* adds none, writes nothing and does not stop the task.
C23_OnlyJoinCreates ==
    [][C23_Step]_vars

\* c joined r1 and then left r2, which nobody ever joined; d sent a signaling
\* frame for r2: both handlers have returned, r1 is the only room, and
\* nothing but the joined of c was ever written.
C23_Witness ==
    \E c, d \in Conns :
        /\ c # d
        /\ hist[c] = << <<"join", "r1">>, <<"leave", "r2">> >>
        /\ Len(hist[d]) = 1 /\ hist[d][1][1] \in RelayEvents /\ hist[d][1][2] = "r2"
        /\ Settled
        /\ DOMAIN rooms = {"r1"}
        /\ Len(sent[c]) = 1 /\ sent[c][1].data.event = "joined"
        /\ \A e \in Conns \ {c} : sent[e] = << >>

(***************************************************************************)
(* C24.  A connection is listed in at most one room.                       *)
(***************************************************************************)
\* C24: in every reachable state a connection is a member of at most one
\* room, also after it joined a room and then sent join for another.
C24_AtMostOneRoom ==
    \A c \in Conns : Cardinality(RoomsHolding(c)) <= 1

(***************************************************************************)
(* C25.  The name in a user-left event.  When the task of c reads a leave  *)
(* frame whose payload decodes (a JSON object or null; for any other       *)
(* payload no event is produced), the name it hands to notifyUserLeft is   *)
(* the payload's userName if that is not empty and the display name of c   *)
(* otherwise; the name is kept through the broadcast, and every frame the  *)
(* broadcast writes is user-left for the room of the leave with exactly    *)
(* that name as its payload.  Nothing else writes a user-left.             *)
(***************************************************************************)
C25_Step ==
    /\ (\A c \in Conns : ~(pc[c] = "leftWrite" /\ cur'[c] # cur[c])) =>
           \A d \in Conns : \A i \in 1..Len(NewSent(d)) :
               NewSent(d)[i].data.event # "user-left"
    /\ \A c \in Conns :
        /\ \A message \in LeaveFrames(c) :
               (Recv(c, message) /\ message.payload.kind \in {"object", "null"}) =>
                   /\ pc'[c] = "notifyLeft"
                   /\ cur'[c].roomID = message.roomId
                   /\ cur'[c].userName = IF message.payload.kind = "object"
                                             /\ message.payload.userName # ""
                                          THEN message.payload.userName
                                          ELSE UserName[c]
        /\ (pc[c] \in {"notifyLeft", "leftWrite"} /\ pc'[c] \in {"notifyLeft", "leftWrite"}) =>
               /\ cur'[c].userName = cur[c].userName
               /\ cur'[c].roomID = cur[c].roomID
        /\ (pc[c] = "leftWrite" /\ cur'[c] # cur[c]) =>
               \A d \in Conns :
                   /\ Len(NewSent(d)) <= 1
                   /\ \A i \in 1..Len(NewSent(d)) :
                          /\ NewSent(d)[i].by = c
                          /\ NewSent(d)[i].data =
                                 Frame("user-left", cur[c].roomID, PObj(cur[c].userName),
                                       "canon")

\* C25: a user-left event carries the userName of the leave payload when
\* that is non-empty, and otherwise the leaving connection's display name.
C25_LeftNameFromPayloadElseConn ==
    [][C25_Step]_vars

\* c1, named "ashu", left r1 with a payload whose userName is empty while
\* another connection was a member of r1: that member was told that "ashu"
\* left, and the task of c1 is back at its read.
C25_Witness ==
    /\ hist["c1"] # << >> /\ LastRead("c1") = <<"leave", "r1">>
    /\ pc["c1"] = "read"
    /\ \E d \in Conns \ {"c1"} :
           /\ d \in Range(Members("r1"))
           /\ sent[d] # << >>
           /\ sent[d][Len(sent[d])] =
                  [data |-> Frame("user-left", "r1", PObj("ashu"), "canon"),
                   by |-> "c1", at |-> Len(hist["c1"]), ok |-> TRUE]

(***************************************************************************)
(* C26.  A member list holds a connection at most once.                    *)
(***************************************************************************)
\* C26: no room's member list contains the same connection twice, also
\* after a connection re-sent join for the room it is in.
C26_NoDuplicateMember ==
    \A r \in DOMAIN rooms : \A c \in Conns : Count(rooms[r], c) <= 1

(***************************************************************************)
(* C27.  A connection that was told joined for a room, has read no leave   *)
(* since and whose transport is open is a member of that room.             *)
(***************************************************************************)
\* The connection was sent joined for r and has read no leave at all.
JoinedAndStayed(c, r) ==
    /\ alive[c]
    /\ \E i \in 1..Len(sent[c]) :
           /\ sent[c][i].ok
           /\ sent[c][i].data.event = "joined"
           /\ sent[c][i].data.roomId = r
    /\ \A i \in 1..Len(hist[c]) : hist[c][i][1] # "leave"

\* C27: a connection that has been sent joined for a room and has neither
\* left nor lost its transport is in the room's member list, also when a
\* deletion of the room ran in between.
C27_JoinedIsMember ==
    \A c \in Conns : \A r \in RoomIds :
        JoinedAndStayed(c, r) => c \in Range(Members(r))

(***************************************************************************)
(* C28.  When every WriteMessage returns, no request for the registry lock *)
(* waits for ever: a task about to call mutex.Lock() or waiting in it      *)
(* (join, cleanup after a leave or a read error) or about to call          *)
(* mutex.RLock() (the broadcast of a leave, a relay, logRoomStatus) gets   *)
(* past the call, and so does a deletion about to remove the registry      *)
(* entry.                                                                  *)
(***************************************************************************)
RequestsLock(c) ==
    pc[c] \in {"join", "joinLock", "notifyLeft", "relay", "logStatus",
               "cleanup", "cleanupLock", "closing", "closingLock"}
DeleteRequestsLock(s) == del[s].pc \in {"unmap", "unmapLock"}

\* C28: provided every transport write eventually returns, every task that
\* requests the registry lock eventually acquires it.
C28_LockAcquired ==
    /\ \A c \in Conns : RequestsLock(c) ~> ~RequestsLock(c)
    /\ \A s \in DelSlots : DeleteRequestsLock(s) ~> ~DeleteRequestsLock(s)

\* A relay stands at a write to the transport that may stall, with the read
\* lock; a cleanup waits in mutex.Lock() behind it; and a third task, about
\* to log the room status, waits in mutex.RLock() behind the cleanup.
C28_Witness ==
    \E c, d, e \in Conns :
        /\ pc[c] = "relayWrite" /\ WritingTo(c) = Stalled
        /\ pc[d] \in {"cleanupLock", "closingLock"}
        /\ pc[e] = "logStatus"
        /\ ~CanRLock /\ ~CanLock

(***************************************************************************)
(* C29.  A leave does not end the connection.  The cleanup that ends the   *)
(* leave handler takes the task back to its read with the transport open;  *)
(* a join read after a leave registers the connection in the room it names *)
(* (one more listing than before), and its reply, written to the open      *)
(* transport, is joined for that room.                                     *)
(***************************************************************************)
HasReadLeave(c) == \E i \in 1..Len(hist[c]) : hist[c][i][1] = "leave"

C29_Step ==
    \A c \in Conns :
        /\ (pc[c] = "cleanupLock" /\ pc'[c] # "cleanupLock") =>
               /\ pc'[c] = "read"
               /\ alive'[c] /\ alive[c]
        /\ (HasReadLeave(c) /\ pc[c] = "joinLock" /\ pc'[c] # "joinLock") =>
               pc'[c] \in {"joinInsert", "joinWriteMember", "joined"}
        /\ (HasReadLeave(c) /\ pc[c] # "joined" /\ pc'[c] = "joined") =>
               /\ pc[c] \in {"joinLock", "joinInsert", "joinFetch", "joinWriteSelf"}
               /\ cur[c].roomID \in DOMAIN rooms'
               /\ Count(rooms'[cur[c].roomID], c) = Count(Members(cur[c].roomID), c) + 1
        /\ (HasReadLeave(c) /\ pc[c] = "joined" /\ pc'[c] # "joined") =>
               /\ pc'[c] = "logStatus"
               /\ Len(NewSent(c)) = 1
               /\ NewSent(c)[1].data.event = "joined"
               /\ NewSent(c)[1].data.roomId = cur[c].roomID
               /\ NewSent(c)[1].ok = alive[c]
        /\ (pc[c] = "logStatus" /\ pc'[c] # "logStatus") => pc'[c] = "read"

\* C29: after a leave the server keeps reading from the same transport, and
\* a later join registers the connection again and sends it joined.
C29_LeaveThenRejoin ==
    [][C29_Step]_vars

\* A connection joined r1, left it and joined it again: it is the one member
\* of r1, it was sent joined twice, and its task is at the read.
C29_Witness ==
    \E c \in Conns :
        /\ hist[c] = << <<"join", "r1">>, <<"leave", "r1">>, <<"join", "r1">> >>
        /\ pc[c] = "read" /\ alive[c]
        /\ Members("r1") = <<c>>
        /\ Len(sent[c]) = 2
        /\ \A i \in 1..2 : sent[c][i].ok /\ sent[c][i].data.event = "joined"

(***************************************************************************)
(* C30.  Every room id with a row in the table has an entry in the         *)
(* registry.                                                               *)
(***************************************************************************)
C30_RecordHasEntry ==
    DOMAIN dbRooms \subseteq DOMAIN rooms

====
